---- MODULE Spec2Model ----
(***************************************************************************)
(* Option-chain backend: the session orchestrator (kite_autologin.py), the *)
(* system object (main.py), the spreadsheet fetch (final_excel_handler.py) *)
(* and the API handlers (fastapi_server.py) as one state machine.          *)
(*                                                                         *)
(* Time is a pair (day, minute of day).  A token is a number: 0 is the     *)
(* empty string, n > 0 is the token the n-th browser login was issued,     *)
(* FallbackToken is the literal 'fallback_token' of main.py.               *)
(***************************************************************************)
EXTENDS Integers, Sequences, FiniteSets, TLC

\* ------------------------------------------------------------------ bounds
MaxDay == 2
MaxLogins == 2
MaxChain == 2

\* --------------------------------------------------------- program constants
\* dt_time(17, 0), as a minute of the day
CutoffMinute == 1020
\* strike < 1000 is discarded
MinStrike == 1000
\* the literal 'fallback_token'
FallbackToken == -1
\* start_row: the first data row of the option chain table
StartRow == 13

\* the instants of a day the clock is sampled at: 16:00, 16:59, 17:00:00, 17:01
ClockSamples == {960, 1019, 1020, 1021}
Days == 1..MaxDay

\* the tasks that call initialize_system_fast, and the fetch requests
Callers == {"startup", "api"}
Requests == {"r1", "r2"}
Symbols == {"NIFTY", "BANKNIFTY"}

VARIABLES
    now,            \* [day, minute]: datetime.now()
    cache,          \* token_cache.json
    sheet,          \* the workbook's cells this program touches
    token_data,     \* OptimizedOptionTradingSystem.token_data
    dropdown_options,           \* .dropdown_options ("None" or where it came from)
    initialization_complete,    \* .initialization_complete
    is_running,     \* .is_running
    issued,         \* number of browser logins the site has answered with a token
    init,           \* per caller: position in initialize_system_fast and its locals
    fetch,          \* per request: position in fetch_option_data and its locals
    call            \* a synchronous call: the function, its arguments, its result

vars == <<now, cache, sheet, token_data, dropdown_options,
          initialization_complete, is_running, issued, init, fetch, call>>

\* ------------------------------------------------------------- the cache file
NoFile == [state |-> "absent", user_id |-> "", enctoken |-> 0, day |-> 0, minute |-> 0]
Corrupt == [state |-> "corrupt", user_id |-> "", enctoken |-> 0, day |-> 0, minute |-> 0]
CacheRecord(u, t, d, m) ==
    [state |-> "record", user_id |-> u, enctoken |-> t, day |-> d, minute |-> m]

\* ------------------------------------------------------------------ the dicts
\* token_data: key is the dict key the token is stored under ("None": no dict)
NoneToken == [key |-> "None", user_id |-> "", token |-> 0, day |-> 0, minute |-> 0]
FallbackCredential ==
    [key |-> "enc_token", user_id |-> "JOL229", token |-> FallbackToken,
     day |-> 0, minute |-> 0]
LoadedFromCache(c) ==
    [key |-> "enctoken", user_id |-> c.user_id, token |-> c.enctoken,
     day |-> c.day, minute |-> c.minute]

\* what a strategy or the resolver returns: {} is found = FALSE
Empty == [found |-> FALSE, enctoken |-> 0, user_id |-> ""]
Found(t, u) == [found |-> TRUE, enctoken |-> t, user_id |-> u]

\* ------------------------------------------------- AutomatedDailyLogin: check
\* (variant: the cutoff instant itself still counts as valid)
IsSessionValidAtInclusive(c, t) ==
    /\ c.state = "record"
    /\ c.day = t.day
    /\ t.minute <= CutoffMinute

IsSessionValidAt(c, t) ==
    /\ c.state = "record"
    /\ c.day = t.day
    /\ t.minute < CutoffMinute

is_session_valid == IsSessionValidAt(cache, now)

\* --------------------------------------------- KiteAutoLogin: the strategies
\* What the logged-in browser session holds for token t: the enctoken cookie and
\* localStorage item (0: absent or empty), a Set-Cookie header in the performance
\* log (netHit) and its enctoken= value (0: empty), and the user id ("": unknown).
Browsers(t) ==
    [cookie : {0, t}, local : {0, t}, netHit : BOOLEAN, net : {0, t},
     uid : {"U1", ""}]

OrUnknown(u) == IF u = "" THEN "UNKNOWN" ELSE u

ExtractFromCookies(b) ==
    IF b.cookie # 0 THEN Found(b.cookie, OrUnknown(b.uid)) ELSE Empty

ExtractFromLocalStorage(b) ==
    IF b.local # 0 THEN Found(b.local, OrUnknown(b.uid)) ELSE Empty

\* returns whatever follows 'enctoken=', also when that is empty
ExtractFromNetworkLogs(b) ==
    IF b.netHit THEN Found(b.net, OrUnknown(b.uid)) ELSE Empty

\* truthiness of token_data.get('enctoken')
HasToken(r) == r.found /\ r.enctoken # 0

\* login_and_extract_token from the point the dashboard URL is observed
\* (variant: the last strategy's result is returned without the token check)
ExtractTokenUnchecked(b) ==
    IF HasToken(ExtractFromCookies(b)) THEN ExtractFromCookies(b)
    ELSE IF HasToken(ExtractFromLocalStorage(b)) THEN ExtractFromLocalStorage(b)
    ELSE ExtractFromNetworkLogs(b)

\* (variant: localStorage is asked before the cookies)
ExtractTokenLocalFirst(b) ==
    IF HasToken(ExtractFromLocalStorage(b)) THEN ExtractFromLocalStorage(b)
    ELSE IF HasToken(ExtractFromCookies(b)) THEN ExtractFromCookies(b)
    ELSE IF HasToken(ExtractFromNetworkLogs(b)) THEN ExtractFromNetworkLogs(b)
    ELSE Empty

ExtractToken(b) ==
    IF HasToken(ExtractFromCookies(b)) THEN ExtractFromCookies(b)
    ELSE IF HasToken(ExtractFromLocalStorage(b)) THEN ExtractFromLocalStorage(b)
    ELSE IF HasToken(ExtractFromNetworkLogs(b)) THEN ExtractFromNetworkLogs(b)
    ELSE Empty

\* ------------------------------------------------------------ ExcelTokenWriter
\* "unavailable": pywin32 or the file or the workbook is missing (nothing written);
\* "fail_first" / "fail_second": the write of F587 / F615 raises;
\* "fail_save": both cells are written and Save raises; "ok".
WriteOutcomes == {"unavailable", "fail_first", "fail_second", "fail_save", "ok"}

WriteTokenCells(s, user_id, enctoken, w) ==
    CASE w \in {"unavailable", "fail_first"} -> s
      [] w = "fail_second" -> [s EXCEPT !.F587 = user_id]
      [] OTHER -> [s EXCEPT !.F587 = user_id, !.F615 = enctoken]

WriteTokenReturns(w) == w = "ok"

\* -------------------------------------------------------------- _cache_token
\* "ok"; "open_failed": open(..., 'w') raises, the file is as it was;
\* "truncated": the file was opened for writing and the dump raised.
CacheOutcomes == {"ok", "open_failed", "truncated"}

\* (variant: the record keeps the timestamp of the file it replaces)
CacheTokenStaleStamp(c, cred, t, o) ==
    CASE o = "ok" -> CacheRecord(cred.user_id, cred.enctoken, c.day, c.minute)
      [] o = "open_failed" -> c
      [] OTHER -> Corrupt

CacheToken(c, cred, t, o) ==
    CASE o = "ok" -> CacheRecord(cred.user_id, cred.enctoken, t.day, t.minute)
      [] o = "open_failed" -> c
      [] OTHER -> Corrupt

\* ------------------------------------------------------ get_dropdown_options
\* where the returned options came from; none of them is None
DropdownSources == {"extracted", "cached", "fallback"}

\* ------------------------------------------------------------- initial state
\* a token issued before the run starts (the tokens issued in it are 1..MaxLogins)
PriorToken == MaxLogins + 1

IdleInit == [pc |-> "idle", login |-> "none", cred |-> Empty, ret |-> FALSE, day |-> 0]

\* the workbook as an earlier run left it
UsedSheet ==
    [F587 |-> "U1", F615 |-> PriorToken, B2 |-> "NIFTY", B3 |-> "07-10-2025",
     B4 |-> "30-10-2025", B6 |-> 1, gridFor |-> "NIFTY"]

NoResponse == [status |-> "none", data_source |-> "", spot_ltp |-> 0, rows |-> <<>>]

\* no synchronous call is being followed
NoCall == [fn |-> "none", pc |-> "none", arg |-> <<>>, ret |-> <<>>]

IdleFetch ==
    [pc |-> "idle", symbol |-> "", chain_length |-> 0,
     credsWritten |-> FALSE, inputsWritten |-> FALSE, clicked |-> FALSE,
     resp |-> NoResponse]

Init ==
    /\ now \in [day : {1}, minute : ClockSamples]
    /\ cache \in {NoFile, Corrupt,
                  CacheRecord("U1", PriorToken, 0, 960),
                  CacheRecord("U1", PriorToken, 1, 960)}
    /\ sheet = UsedSheet
    /\ token_data = NoneToken
    /\ dropdown_options = "None"
    /\ initialization_complete = FALSE
    /\ is_running = FALSE
    /\ issued = 0
    /\ init = [p \in Callers |-> IdleInit]
    /\ fetch = [r \in Requests |-> IdleFetch]
    /\ call = NoCall

\* --------------------------------------------------------------- environment
\* the wall clock moves on
Tick ==
    /\ \E t \in [day : Days, minute : ClockSamples] :
          /\ \/ t.day = now.day /\ t.minute > now.minute
             \/ t.day = now.day + 1
          /\ now' = t
    /\ UNCHANGED <<call, cache, sheet, token_data, dropdown_options,
                   initialization_complete, is_running, issued, init, fetch>>

\* the dashboard's "Clear Cache" button removes token_cache.json
ClearCache ==
    /\ cache.state # "absent"
    /\ cache' = NoFile
    /\ UNCHANGED <<call, now, sheet, token_data, dropdown_options,
                   initialization_complete, is_running, issued, init, fetch>>

\* ------------------------------------------------- initialize_system_fast
\* (variant: the flag is raised without the dropdown options being resolved)
InitCompletesNoDropdown(p, td, login, cred) ==
    /\ token_data' = td
    /\ dropdown_options' = dropdown_options
    /\ is_running' = TRUE
    /\ initialization_complete' = TRUE
    /\ init' = [init EXCEPT ![p] =
                  [pc |-> "done", login |-> login, cred |-> cred, ret |-> TRUE,
                   day |-> now.day]]

\* main.py 59-74: step 2 and the return, once token_data is td
InitCompletes(p, td, login, cred) ==
    /\ token_data' = td
    /\ \E src \in DropdownSources : dropdown_options' = src
    /\ is_running' = TRUE
    /\ initialization_complete' = TRUE
    /\ init' = [init EXCEPT ![p] =
                  [pc |-> "done", login |-> login, cred |-> cred, ret |-> TRUE,
                   day |-> now.day]]

\* main.py 76-80: an exception reached the handler
InitRaises(p, login, cred) ==
    /\ init' = [init EXCEPT ![p] =
                  [pc |-> "done", login |-> login, cred |-> cred, ret |-> FALSE,
                   day |-> now.day]]
    /\ UNCHANGED <<token_data, dropdown_options, is_running,
                   initialization_complete>>

\* main.py 47-53: what initialize_system_fast holds after a failed login
AfterFailedLogin(p, cred) == InitCompletes(p, FallbackCredential, "failed", cred)

\* main.py 54-57: the cache file is read back after a successful login
AfterGoodLogin(p, cred) ==
    IF cache'.state = "record"
    THEN InitCompletes(p, LoadedFromCache(cache'), "ok", cred)
    ELSE InitRaises(p, "ok", cred)

\* (variant: the token is cached before the spreadsheet is written)
PerformDailyLoginRestCacheFirst(p, cred) ==
    \/ /\ ~HasToken(cred)
       /\ UNCHANGED <<sheet, cache>>
       /\ AfterFailedLogin(p, cred)
    \/ /\ HasToken(cred)
       /\ \E o \in CacheOutcomes : cache' = CacheToken(cache, cred, now, o)
       /\ \E w \in WriteOutcomes :
             /\ sheet' = WriteTokenCells(sheet, cred.user_id, cred.enctoken, w)
             /\ IF WriteTokenReturns(w)
                THEN AfterGoodLogin(p, cred)
                ELSE AfterFailedLogin(p, cred)

\* perform_daily_login from the return of login_and_extract_token (with cred) on,
\* and the rest of initialize_system_fast
PerformDailyLoginRest(p, cred) ==
    \/ /\ ~HasToken(cred)
       /\ UNCHANGED <<sheet, cache>>
       /\ AfterFailedLogin(p, cred)
    \/ /\ HasToken(cred)
       /\ \E w \in WriteOutcomes :
             /\ sheet' = WriteTokenCells(sheet, cred.user_id, cred.enctoken, w)
             /\ IF WriteTokenReturns(w)
                THEN /\ \E o \in CacheOutcomes : cache' = CacheToken(cache, cred, now, o)
                     /\ AfterGoodLogin(p, cred)
                ELSE /\ cache' = cache
                     /\ AfterFailedLogin(p, cred)

\* how far the browser part of login_and_extract_token gets before its first await
\* "no_browser": selenium is missing or webdriver.Chrome raised (driver is None);
\* "no_login": the driver is up and the get, the script or the 120 s wait failed;
\* "logged_in": the dashboard URL was observed.
BrowserOutcomes == {"no_browser", "no_login", "logged_in"}

Waiting == {p \in Callers : init[p].pc = "sleep2"}

MayStart(p) ==
    /\ init[p].pc = "idle"
    /\ p = "api" => /\ init["startup"].pc # "idle"
                    /\ ~initialization_complete

\* (variant: the valid path re-stamps the cache file)
UseCachedSessionRefresh(p) ==
    /\ InitCompletes(p, LoadedFromCache(cache), "none", Empty)
    /\ cache' = CacheRecord(cache.user_id, cache.enctoken, now.day, now.minute)
    /\ UNCHANGED <<sheet, issued>>

\* main.py 38-42: the session is valid, the cached record is the credential
UseCachedSession(p) ==
    /\ InitCompletes(p, LoadedFromCache(cache), "none", Empty)
    /\ UNCHANGED <<sheet, cache, issued>>

InitBegin(p) ==
    /\ MayStart(p)
    /\ IF is_session_valid
       THEN UseCachedSession(p)
       ELSE \E b \in BrowserOutcomes :
               CASE b = "no_browser" ->
                        /\ PerformDailyLoginRest(p, Empty)
                        /\ UNCHANGED issued
                 [] b = "no_login" ->
                        /\ init' = [init EXCEPT ![p] =
                              [IdleInit EXCEPT !.pc = "sleep3"]]
                        /\ UNCHANGED <<sheet, cache, issued, token_data,
                                       dropdown_options, is_running,
                                       initialization_complete>>
                 [] OTHER ->
                        /\ issued + Cardinality(Waiting) < MaxLogins
                        /\ init' = [init EXCEPT ![p] =
                              [IdleInit EXCEPT !.pc = "sleep2"]]
                        /\ UNCHANGED <<sheet, cache, issued, token_data,
                                       dropdown_options, is_running,
                                       initialization_complete>>
    /\ UNCHANGED <<call, now, fetch>>

\* kite_autologin.py 100-122: after the 2 s sleep the strategies run
LoginExtract(p) ==
    /\ init[p].pc = "sleep2"
    /\ issued' = issued + 1
    /\ \E b \in Browsers(issued + 1) :
          init' = [init EXCEPT ![p].pc = "sleep3", ![p].cred = ExtractToken(b)]
    /\ UNCHANGED <<call, now, cache, sheet, token_data, dropdown_options,
                   initialization_complete, is_running, fetch>>

\* kite_autologin.py 128-135 and 321-345, main.py 47-74: after the 3 s sleep
LoginFinish(p) ==
    /\ init[p].pc = "sleep3"
    /\ PerformDailyLoginRest(p, init[p].cred)
    /\ UNCHANGED <<call, now, issued, fetch>>

\* the caller takes the result: the background task ends, the handler answers
InitRespond(p) ==
    /\ init[p].pc = "done"
    /\ init' = [init EXCEPT ![p] =
                  [IdleInit EXCEPT !.pc = IF p = "startup" THEN "exited" ELSE "idle"]]
    /\ UNCHANGED <<call, now, cache, sheet, token_data, dropdown_options,
                   initialization_complete, is_running, issued, fetch>>

\* ----------------------------------------------------- FinalExcelHandler
\* a cell's value: blank (None or ""), a number, a text that float() parses after
\* the commas and spaces are removed ("19,500"), or a text with a header word
Blank == [kind |-> "blank", num |-> 0]
Num(n) == [kind |-> "num", num |-> n]
NumText(n) == [kind |-> "numtext", num |-> n]
Header == [kind |-> "header", num |-> 0]

SafeReadNumeric(c) == IF c.kind \in {"num", "numtext"} THEN c.num ELSE 0

\* what the macro may have left in a strike cell (column I) and in F7
StrikeCells == {Blank, Num(0), Num(500), Num(19500)}
SpotCells == {Num(0), Num(19500)}

\* (variant: the scan ends at the first row it rejects)
RECURSIVE ReadRowsUntilBlank(_, _, _)
ReadRowsUntilBlank(g, i, n) ==
    IF i > n THEN <<>>
    ELSE LET strike == SafeReadNumeric(g[i]) IN
         IF strike = 0 \/ strike < MinStrike
         THEN <<>>
         ELSE <<strike>> \o ReadRowsUntilBlank(g, i + 1, n)

\* final_excel_handler.py 231-268: the rows kept of the strike cells g[1..n]
RECURSIVE ReadRows(_, _, _)
ReadRows(g, i, n) ==
    IF i > n THEN <<>>
    ELSE LET strike == SafeReadNumeric(g[i]) IN
         IF strike = 0 \/ strike < MinStrike
         THEN ReadRows(g, i + 1, n)
         ELSE <<strike>> \o ReadRows(g, i + 1, n)

\* final_excel_handler.py 182-223, 270-274: the marker does not depend on validation
DataSourceOf(spot_ltp, rows) == "excel_live"

ExtractCompleteOptionChain(spotCell, g, n) ==
    LET spot_ltp == SafeReadNumeric(spotCell)
        rows == ReadRows(g, 1, n)
    IN [status |-> "returned", data_source |-> DataSourceOf(spot_ltp, rows),
        spot_ltp |-> spot_ltp, rows |-> rows]

ErrorRecord == [status |-> "returned", data_source |-> "error", spot_ltp |-> 0, rows |-> <<>>]

\* main.py 210-234
BasePrice(symbol) == IF symbol = "BANKNIFTY" THEN 45000 ELSE 19500

GenerateFallbackData(symbol) ==
    [status |-> "returned", data_source |-> "fallback",
     spot_ltp |-> BasePrice(symbol), rows |-> <<>>]

\* fastapi_server.py 229-297: the handler wraps whatever it got as a success
ApiResponse(data) == [data EXCEPT !.status = "success"]

Refused == [status |-> "400", data_source |-> "", spot_ltp |-> 0, rows |-> <<>>]

\* final_excel_handler.py 44-49: "ok", or the write of F587 / F615 raised
CredWriteOutcomes == {"ok", "fail_first", "fail_second"}

\* (variant: the token cell is blanked instead of written)
WriteCredentialsBlank(s, td, w) ==
    CASE w = "fail_first" -> s
      [] w = "fail_second" -> [s EXCEPT !.F587 = td.user_id]
      [] OTHER -> [s EXCEPT !.F587 = td.user_id, !.F615 = 0]

WriteCredentials(s, td, w) ==
    CASE w = "fail_first" -> s
      [] w = "fail_second" -> [s EXCEPT !.F587 = td.user_id]
      [] OTHER -> [s EXCEPT !.F587 = td.user_id, !.F615 = td.token]

\* final_excel_handler.py 53-60: k of the four input cells are written before a raise
\* (B3 and B4 get the same text from every request, so 2 and 3 are as 1)
InputsWritten == {0, 1, 4}

WriteInputs(s, symbol, n, k) ==
    [s EXCEPT !.B2 = IF k >= 1 THEN symbol ELSE @,
              !.B3 = IF k >= 2 THEN "07-10-2025" ELSE @,
              !.B4 = IF k >= 3 THEN "30-10-2025" ELSE @,
              !.B6 = IF k >= 4 THEN n ELSE @]

\* final_excel_handler.py 64-72: the macro runs on what B2 holds
ClickButton(s, clicked) == IF clicked THEN [s EXCEPT !.gridFor = s.B2] ELSE s

\* fastapi_server.py 203-210: the handler's gate
PassesGate == initialization_complete

\* main.py 174: the gate of fetch_option_data_fast
HasTokenData == token_data.key # "None"

\* fastapi_server.py 186-224, main.py 173-189, final_excel_handler.py 24-76
FetchBegin(r) ==
    /\ fetch[r].pc = "idle"
    /\ \E symbol \in Symbols, n \in 1..MaxChain :
          LET end == [IdleFetch EXCEPT !.pc = "done"]
          IN \/ /\ ~PassesGate
                /\ fetch' = [fetch EXCEPT ![r] = [end EXCEPT !.resp = Refused]]
                /\ sheet' = sheet
             \/ /\ PassesGate
                /\ ~HasTokenData
                /\ fetch' = [fetch EXCEPT ![r] =
                               [end EXCEPT !.resp =
                                  ApiResponse(GenerateFallbackData(symbol))]]
                /\ sheet' = sheet
             \/ /\ PassesGate
                /\ HasTokenData
                /\ fetch' = [fetch EXCEPT ![r] =
                               [end EXCEPT !.resp = ApiResponse(ErrorRecord)]]
                /\ sheet' = sheet
             \/ /\ PassesGate
                /\ HasTokenData
                /\ \E w \in CredWriteOutcomes, k \in InputsWritten, clicked \in BOOLEAN :
                      /\ sheet' = ClickButton(
                                    WriteInputs(WriteCredentials(sheet, token_data, w),
                                                symbol, n, k), clicked)
                      /\ fetch' = [fetch EXCEPT ![r] =
                                     [IdleFetch EXCEPT !.pc = "sleep15",
                                        !.symbol = symbol, !.chain_length = n,
                                        !.credsWritten = (w = "ok"),
                                        !.inputsWritten = (k = 4),
                                        !.clicked = clicked]]
    /\ UNCHANGED <<call, now, cache, token_data, dropdown_options,
                   initialization_complete, is_running, issued, init>>

\* final_excel_handler.py 78-88 and the return through main.py and the handler;
\* the request's locals end with the call, the response is what is left
FetchRead(r) ==
    /\ fetch[r].pc = "sleep15"
    /\ \E spotCell \in SpotCells, g \in [1..fetch[r].chain_length -> StrikeCells] :
          fetch' = [fetch EXCEPT ![r] =
                      [IdleFetch EXCEPT !.pc = "done",
                         !.resp = ApiResponse(
                            ExtractCompleteOptionChain(spotCell, g,
                                                       fetch[r].chain_length))]]
    /\ UNCHANGED <<call, now, cache, sheet, token_data, dropdown_options,
                   initialization_complete, is_running, issued, init>>

\* the response is delivered; the request slot is free again
FetchRespond(r) ==
    /\ fetch[r].pc = "done"
    /\ fetch' = [fetch EXCEPT ![r] = IdleFetch]
    /\ UNCHANGED <<call, now, cache, sheet, token_data, dropdown_options,
                   initialization_complete, is_running, issued, init>>

\* ------------------------------------------------------------ specifications
\* The session orchestrator: both initialising tasks (the background task of
\* startup_event and the POST /api/initialize handler), the clock and the cache.
Next ==
    \/ Tick
    \/ ClearCache
    \/ \E p \in Callers : InitBegin(p)
    \/ \E p \in Callers : LoginExtract(p)
    \/ \E p \in Callers : LoginFinish(p)
    \/ \E p \in Callers : InitRespond(p)

Spec == Init /\ [][Next]_vars

\* The server end to end: the background initialisation and the fetch requests.
NextServer ==
    \/ Tick
    \/ ClearCache
    \/ InitBegin("startup")
    \/ LoginExtract("startup")
    \/ LoginFinish("startup")
    \/ InitRespond("startup")
    \/ FetchBegin("r1")
    \/ FetchRead("r1")
    \/ FetchRespond("r1")

SpecServer == Init /\ [][NextServer]_vars

\* The initialised server under concurrent fetch requests: the state the startup
\* task leaves when it found today's cache record, then the handlers of two
\* POST /api/fetch-option-data requests, each suspended at its asyncio.sleep(15).
InitFetch ==
    /\ now = [day |-> 1, minute |-> 960]
    /\ cache = CacheRecord("U1", PriorToken, 1, 960)
    /\ sheet = UsedSheet
    /\ token_data = LoadedFromCache(cache)
    /\ dropdown_options = "extracted"
    /\ initialization_complete = TRUE
    /\ is_running = TRUE
    /\ issued = 0
    /\ init = [p \in Callers |->
                 IF p = "startup" THEN [IdleInit EXCEPT !.pc = "exited"] ELSE IdleInit]
    /\ fetch = [r \in Requests |-> IdleFetch]
    /\ call = NoCall

NextFetch ==
    \/ \E r \in Requests : FetchBegin(r)
    \/ \E r \in Requests : FetchRead(r)
    \/ \E r \in Requests : FetchRespond(r)

SpecFetch == InitFetch /\ [][NextFetch]_vars

\* ------------------------------------------------- the other handlers
\* main.py 236-238: cleanup, called by the shutdown handler
Cleanup ==
    /\ is_running
    /\ is_running' = FALSE
    /\ UNCHANGED <<call, now, cache, sheet, token_data, dropdown_options,
                   initialization_complete, issued, init, fetch>>

\* fastapi_server.py 147-181: GET /api/dropdown-options; the handler does not
\* await, so the request is answered in one step
\* (line 167: dropdown_options or get_dropdown_options(); "resolved": a fresh call)
DropdownRequest ==
    /\ call.fn = "none"
    /\ call' = [fn |-> "dropdown_options", pc |-> "returned", arg |-> <<>>,
                ret |-> IF ~PassesGate
                        THEN [status |-> "400", options |-> "None"]
                        ELSE [status |-> "success",
                              options |-> IF dropdown_options # "None"
                                          THEN dropdown_options ELSE "resolved"]]
    /\ UNCHANGED <<now, cache, sheet, token_data, dropdown_options,
                   initialization_complete, is_running, issued, init, fetch>>

\* the response is delivered
DropdownRespond ==
    /\ call.fn = "dropdown_options"
    /\ call' = NoCall
    /\ UNCHANGED <<now, cache, sheet, token_data, dropdown_options,
                   initialization_complete, is_running, issued, init, fetch>>

\* The system object under the handlers that test its flag: the background
\* initialisation, one fetch request, the dropdown-options requests and cleanup,
\* from 16:00 on a frozen clock.
InitHandlers ==
    /\ Init
    /\ now.minute = 960

NextHandlers ==
    \/ InitBegin("startup")
    \/ LoginExtract("startup")
    \/ LoginFinish("startup")
    \/ InitRespond("startup")
    \/ FetchBegin("r1")
    \/ FetchRead("r1")
    \/ FetchRespond("r1")
    \/ DropdownRequest
    \/ DropdownRespond
    \/ Cleanup

SpecHandlers == InitHandlers /\ [][NextHandlers]_vars

\* ------------------------------------------------------------------ claims
\* a step in which p's initialize_system_fast call starts / returns
Starts(p) == init[p].pc = "idle" /\ init'[p].pc # "idle"
Returns(p) == init[p].pc # "done" /\ init'[p].pc = "done"
ValidNow == cache.state = "record" /\ cache.day = now.day /\ now.minute < CutoffMinute

\* C1: when the login flow fails during initialize_system_fast, the call reports
\* failure, leaves initialization_complete as it was and substitutes no credential.
C1_LoginFailurePropagated ==
    [][\A p \in Callers :
          (Returns(p) /\ init'[p].login = "failed")
             => /\ init'[p].ret = FALSE
                /\ initialization_complete' = initialization_complete
                /\ token_data' = token_data]_vars

\* C2: a call finds the session valid exactly when the cache file holds a record
\* stamped today and the time is strictly before 17:00; otherwise (17:00 or later,
\* another day, no file, unparsable file) it finds it invalid and goes on to log in.
C2_ValidIffTodayBeforeCutoff ==
    [][\A p \in Callers :
          Starts(p) => ((init'[p].pc = "done" /\ init'[p].login = "none") <=> ValidNow)]_vars

\* a login was started at 17:01 although the cache holds a record stamped today
C2_Witness ==
    \E p \in Callers :
        /\ init[p].pc \in {"sleep2", "sleep3"}
        /\ cache.state = "record" /\ cache.day = now.day /\ now.minute = 1021

\* C3: a call that finds the session valid takes the cached record as token_data,
\* returns at once with no login (no browser session, no token issued) and writes
\* neither the cache file nor the credential cells.
C3_ValidSessionReused ==
    [][\A p \in Callers :
          (Starts(p) /\ ValidNow)
             => /\ init'[p].pc = "done" /\ init'[p].login = "none" /\ init'[p].ret
                /\ token_data' = LoadedFromCache(cache)
                /\ cache' = cache
                /\ sheet'.F587 = sheet.F587 /\ sheet'.F615 = sheet.F615
                /\ issued' = issued]_vars

C3_Witness ==
    \E p \in Callers :
        /\ init[p].pc = "done" /\ init[p].login = "none" /\ init[p].ret
        /\ cache.state = "record" /\ token_data = LoadedFromCache(cache)
        /\ token_data.token = PriorToken

C5_SuccessMeansPersisted ==
    [][\A p \in Callers :
          (Returns(p) /\ init'[p].login = "ok")
             => /\ sheet'.F587 = init'[p].cred.user_id
                /\ sheet'.F615 = init'[p].cred.enctoken
                /\ cache' = CacheRecord(init'[p].cred.user_id, init'[p].cred.enctoken,
                                        now.day, now.minute)
                /\ init'[p].ret
                /\ token_data'.token = init'[p].cred.enctoken]_vars

\* C6: a login flow that fails (no token, or the spreadsheet write failed) returns
\* failure and leaves the cache file, hence the verdict of the session check, as
\* they were.
C6_FailedLoginLeavesCache ==
    [][\A p \in Callers :
          (Returns(p) /\ init'[p].login # "none")
             => /\ ~HasToken(init'[p].cred) => init'[p].login = "failed"
                /\ sheet'.F615 # init'[p].cred.enctoken => init'[p].login = "failed"
                /\ init'[p].login = "failed"
                      => /\ cache' = cache
                         /\ IsSessionValidAt(cache', now') = IsSessionValidAt(cache, now)]_vars

\* a token was extracted, the write of the token cell failed, the login failed
C6_Witness ==
    \E p \in Callers :
        /\ init[p].pc = "done" /\ init[p].login = "failed"
        /\ HasToken(init[p].cred)
        /\ sheet.F587 = init[p].cred.user_id /\ sheet.F615 # init[p].cred.enctoken
        /\ cache.state = "absent"

\* C9: every credential the resolver returned, every record in the cache file and
\* every credential held after a successful initialization has a non-empty token.
C9_TokenNonEmpty ==
    /\ \A p \in Callers : init[p].cred.found => init[p].cred.enctoken # 0
    /\ cache.state = "record" => cache.enctoken # 0
    /\ \A p \in Callers :
          (init[p].pc = "done" /\ init[p].ret)
             => (token_data.key # "None" /\ token_data.token # 0)

\* a login's extracted token went through the cache file into token_data
C9_Witness ==
    \E p \in Callers :
        /\ init[p].pc = "done" /\ init[p].ret /\ init[p].cred.found
        /\ cache.state = "record" /\ cache.enctoken = init[p].cred.enctoken
        /\ token_data.token = init[p].cred.enctoken

\* a fetch request's step that touches the workbook
Touches(r) == fetch[r].pc = "idle" /\ fetch'[r].pc = "sleep15"
HeldCredentialFresh ==
    /\ token_data.key = "enctoken"
    /\ token_data.token # 0
    /\ token_data.day = now.day
    /\ now.minute < CutoffMinute

\* C7: no fetch writes the held credential into the workbook at or after 17:00
\* of the day the credential was produced, or on a later day.
C7_NoFetchWithExpiredCredential ==
    [][\A r \in Requests :
          (Touches(r) /\ fetch'[r].credsWritten /\ token_data.key = "enctoken")
             => (token_data.day = now.day /\ now.minute < CutoffMinute)]_vars

\* C8: a fetch touches the workbook only if the dropdown values are resolved and a
\* valid credential is held.
C8_FetchGated ==
    [][\A r \in Requests :
          Touches(r) => (dropdown_options # "None" /\ HeldCredentialFresh)]_vars

\* C10: a read that finds a non-positive spot price or no rows does not fail and
\* does not carry the live-data marker.
C10_DegradedMarked ==
    [][\A r \in Requests :
          (/\ fetch[r].pc = "sleep15" /\ fetch'[r].pc = "done"
           /\ (fetch'[r].resp.spot_ltp <= 0 \/ fetch'[r].resp.rows = <<>>))
             => fetch'[r].resp.data_source \notin {"excel_live", "error"}]_vars

\* C12: while one fetch is between writing its input cells and reading the grid,
\* no other fetch writes the input cells or runs the macro, and the grid a fetch
\* reads after writing its inputs and running the macro is the one computed for
\* the symbol it wrote.
C12_FetchesExclusive ==
    [][\A r \in Requests :
          /\ \A q \in Requests \ {r} :
                (Touches(q) /\ (fetch'[q].inputsWritten \/ fetch'[q].clicked))
                   => fetch[r].pc # "sleep15"
          /\ (fetch[r].pc = "sleep15" /\ fetch'[r].pc = "done"
                 /\ fetch[r].inputsWritten /\ fetch[r].clicked)
                => sheet.gridFor = fetch[r].symbol]_vars

\* ===================================================== synchronous functions
\* The functions below run to completion without awaiting: each is followed as a
\* call with its arguments (pc "called") and then its result (pc "returned").
ServerIdle ==
    /\ now = [day |-> 1, minute |-> 960]
    /\ cache = NoFile
    /\ sheet = UsedSheet
    /\ token_data = NoneToken
    /\ dropdown_options = "None"
    /\ initialization_complete = FALSE
    /\ is_running = FALSE
    /\ issued = 0
    /\ init = [p \in Callers |-> IdleInit]
    /\ fetch = [r \in Requests |-> IdleFetch]

Called(fn, arg) == [fn |-> fn, pc |-> "called", arg |-> arg, ret |-> <<>>]

Return(ret) ==
    /\ call' = [call EXCEPT !.pc = "returned", !.ret = ret]
    /\ UNCHANGED <<now, cache, sheet, token_data, dropdown_options,
                   initialization_complete, is_running, issued, init, fetch>>

\* ------------------------------------------- the option chain table (column I)
\* what column I may hold in the rows from start_row on, one row past the longest
\* chain asked for
ChainCells == {Blank, Header, Num(0), Num(999), Num(1000), Num(19400), NumText(19500)}
ChainRows == StartRow..(StartRow + MaxChain)

\* final_excel_handler.py 227-268: row = start_row + i for i in range(chain_length)
OptionChainOf(grid, n) == ReadRows([i \in 1..n |-> grid[StartRow + i - 1]], 1, n)

ChainCalls ==
    {Called("read_chain", [grid |-> g, chain_length |-> n]) :
        g \in [ChainRows -> ChainCells], n \in 1..MaxChain}

ReadOptionChain ==
    /\ call.fn = "read_chain" /\ call.pc = "called"
    /\ Return(OptionChainOf(call.arg.grid, call.arg.chain_length))

\* ------------------------------------------------------ the calendar (datetime)
\* A day is its proleptic Gregorian ordinal (0001-01-01 is day 1), as datetime
\* counts it; weekday 0 is Monday.
IsLeap(y) == y % 4 = 0 /\ (y % 100 # 0 \/ y % 400 = 0)

DaysInMonth(y, m) ==
    CASE m \in {1, 3, 5, 7, 8, 10, 12} -> 31
      [] m \in {4, 6, 9, 11} -> 30
      [] OTHER -> IF IsLeap(y) THEN 29 ELSE 28

DaysBeforeMonth(y, m) ==
    <<0, 31, 59, 90, 120, 151, 181, 212, 243, 273, 304, 334>>[m]
        + (IF m > 2 /\ IsLeap(y) THEN 1 ELSE 0)

DaysBeforeYear(y) == (y - 1) * 365 + (y - 1) \div 4 - (y - 1) \div 100 + (y - 1) \div 400

ToOrdinal(y, m, d) == DaysBeforeYear(y) + DaysBeforeMonth(y, m) + d

Ymd(y, m, d) == [y |-> y, m |-> m, d |-> d]

FromOrdinal(ordinal) ==
    LET n0 == ordinal - 1
        n400 == n0 \div 146097
        n1 == n0 % 146097
        n100 == n1 \div 36524
        n2 == n1 % 36524
        n4 == n2 \div 1461
        n3 == n2 % 1461
        nY == n3 \div 365
        n == n3 % 365
        year == n400 * 400 + 1 + n100 * 100 + n4 * 4 + nY
        leap == nY = 3 /\ (n4 # 24 \/ n100 = 3)
        guess == (n + 50) \div 32
        before == DaysBeforeMonth(year, guess)
        month == IF before > n THEN guess - 1 ELSE guess
    IN IF nY = 4 \/ n100 = 4
       THEN Ymd(year - 1, 12, 31)
       ELSE Ymd(year, month, n - DaysBeforeMonth(year, month) + 1)

Weekday(ordinal) == (ordinal + 6) % 7

\* ------------------------------------------------------------- cell values
\* What a cell or a list entry holds: None; a text without date shape ("str", its
\* content in s); a text "a<sep>b<sep>c", followed by " 00:00:00" when time
\* ("text"; a part is written with four digits from 1000 on and with two below);
\* a native date ("date": year a, month b, day c); a number ("num": a).
NoneVal == [kind |-> "none", s |-> "", sep |-> "", a |-> 0, b |-> 0, c |-> 0, time |-> FALSE]
Str(s) == [NoneVal EXCEPT !.kind = "str", !.s = s]
DateText(sep, a, b, c, time) ==
    [kind |-> "text", s |-> "", sep |-> sep, a |-> a, b |-> b, c |-> c, time |-> time]
Native(y, m, d) == [NoneVal EXCEPT !.kind = "date", !.a = y, !.b = m, !.c = d]
Serial(n) == [NoneVal EXCEPT !.kind = "num", !.a = n]

\* bool(v)
Truthy(v) ==
    CASE v.kind = "none" -> FALSE
      [] v.kind = "str" -> v.s # ""
      [] v.kind = "num" -> v.a # 0
      [] OTHER -> TRUE

\* str.strip()
Strip(v) == IF v.kind = "str" /\ v.s \in {" ", "  "} THEN Str("") ELSE v

\* str(v)
StrOf(v) ==
    CASE v.kind = "none" -> Str("None")
      [] v.kind = "date" -> DateText("-", v.a, v.b, v.c, TRUE)
      [] v.kind = "num" -> Str("number")
      [] OTHER -> v

\* date.strftime('%d-%m-%Y')
Strftime(date) == DateText("-", date.d, date.m, date.y, FALSE)

\* %Y takes exactly four digits, %d and %m at most two
IsYear(x) == x >= 1000 /\ x <= 9999
IsDate(y, m, d) == IsYear(y) /\ m \in 1..12 /\ d >= 1 /\ d <= DaysInMonth(y, m)

\* datetime.strptime(text, fmt): the date, or y = 0 for ValueError
NoDate == Ymd(0, 0, 0)
Formats == <<"%Y-%m-%d %H:%M:%S", "%Y-%m-%d", "%d-%m-%Y", "%d/%m/%Y">>

Strptime(v, fmt) ==
    IF v.kind # "text" THEN NoDate
    ELSE CASE fmt = "%Y-%m-%d %H:%M:%S" ->
                 IF v.sep = "-" /\ v.time /\ IsDate(v.a, v.b, v.c)
                 THEN Ymd(v.a, v.b, v.c) ELSE NoDate
           [] fmt = "%Y-%m-%d" ->
                 IF v.sep = "-" /\ ~v.time /\ IsDate(v.a, v.b, v.c)
                 THEN Ymd(v.a, v.b, v.c) ELSE NoDate
           [] fmt = "%d-%m-%Y" ->
                 IF v.sep = "-" /\ ~v.time /\ IsDate(v.c, v.b, v.a)
                 THEN Ymd(v.c, v.b, v.a) ELSE NoDate
           [] OTHER ->
                 IF v.sep = "/" /\ ~v.time /\ IsDate(v.c, v.b, v.a)
                 THEN Ymd(v.c, v.b, v.a) ELSE NoDate

\* date_extractor.py 362-380: three parts of digits, day 1..31, month 1..12
LooksLikeDate(v) ==
    /\ v.kind = "text"
    /\ ~v.time
    /\ v.a >= 1 /\ v.a <= 31
    /\ v.b >= 1 /\ v.b <= 12

\* datetime(1899, 12, 30)
ExcelEpoch == ToOrdinal(1899, 12, 30)

\* (variant: DD-MM-YYYY text is read month first)
FormatDateStringMonthFirst(v) ==
    CASE v.kind = "none" -> NoneVal
      [] v.kind = "date" -> Strftime(Ymd(v.a, v.b, v.c))
      [] v.kind = "num" -> Strftime(FromOrdinal(ExcelEpoch + v.a))
      [] v.kind = "str" -> Strip(v)
      [] OTHER ->
           IF Strptime(v, Formats[1]).y # 0 THEN Strftime(Strptime(v, Formats[1]))
           ELSE IF Strptime(v, Formats[2]).y # 0 THEN Strftime(Strptime(v, Formats[2]))
           ELSE IF Strptime([v EXCEPT !.a = v.b, !.b = v.a], Formats[3]).y # 0
                THEN Strftime(Strptime([v EXCEPT !.a = v.b, !.b = v.a], Formats[3]))
           ELSE IF Strptime(v, Formats[4]).y # 0 THEN Strftime(Strptime(v, Formats[4]))
           ELSE IF LooksLikeDate(v) THEN [v EXCEPT !.sep = "-"]
           ELSE v

\* date_extractor.py 30-74
FormatDateString(v) ==
    CASE v.kind = "none" -> NoneVal
      [] v.kind = "date" -> Strftime(Ymd(v.a, v.b, v.c))
      [] v.kind = "num" -> Strftime(FromOrdinal(ExcelEpoch + v.a))
      [] v.kind = "str" -> Strip(v)
      [] OTHER ->
           IF Strptime(v, Formats[1]).y # 0 THEN Strftime(Strptime(v, Formats[1]))
           ELSE IF Strptime(v, Formats[2]).y # 0 THEN Strftime(Strptime(v, Formats[2]))
           ELSE IF Strptime(v, Formats[3]).y # 0 THEN Strftime(Strptime(v, Formats[3]))
           ELSE IF Strptime(v, Formats[4]).y # 0 THEN Strftime(Strptime(v, Formats[4]))
           ELSE IF LooksLikeDate(v) THEN [v EXCEPT !.sep = "-"]
           ELSE v

\* the days normalisation is followed on: around the end of February of a leap
\* year and of 1900, around a new year, and the first half of a month
SampleDays ==
    (ToOrdinal(2024, 2, 27)..ToOrdinal(2024, 3, 1))
        \cup (ToOrdinal(1900, 2, 27)..ToOrdinal(1900, 3, 1))
        \cup (ToOrdinal(2025, 12, 30)..ToOrdinal(2026, 1, 2))
        \cup (ToOrdinal(2025, 10, 1)..ToOrdinal(2025, 10, 13))

\* the representations of one day: native, serial, and the four text formats
Representations(ordinal) ==
    LET date == FromOrdinal(ordinal) IN
    {Native(date.y, date.m, date.d),
     Serial(ordinal - ExcelEpoch),
     DateText("-", date.y, date.m, date.d, TRUE),
     DateText("-", date.y, date.m, date.d, FALSE),
     DateText("-", date.d, date.m, date.y, FALSE),
     DateText("/", date.d, date.m, date.y, FALSE)}

FormatCalls ==
    UNION {{Called("format_date", [day |-> n, value |-> v]) : v \in Representations(n)} :
              n \in SampleDays}

FormatDate ==
    /\ call.fn = "format_date" /\ call.pc = "called"
    /\ Return(FormatDateString(call.arg.value))

\* date_extractor.py 408-425: range(12), and the weekday of Thursday
FallbackWeeks == 12
Thursday == 3

RECURSIVE FallbackFrom(_, _)
FallbackFrom(current, weeks) ==
    IF weeks = 0 THEN <<>>
    ELSE LET ahead == (Thursday - Weekday(current)) % 7
             days_ahead == IF ahead = 0 THEN 7 ELSE ahead
             thursday == current + days_ahead
         IN <<Strftime(FromOrdinal(thursday))>> \o FallbackFrom(thursday + 7, weeks - 1)

GenerateFallbackDates(today) == FallbackFrom(today, FallbackWeeks)

\* the days datetime.now() falls on: two weeks across a new year
CurrentDays == ToOrdinal(2025, 12, 22)..ToOrdinal(2026, 1, 4)

FallbackCalls == {Called("fallback_dates", [today |-> n]) : n \in CurrentDays}

GenerateFallback ==
    /\ call.fn = "fallback_dates" /\ call.pc = "called"
    /\ Return(GenerateFallbackDates(call.arg.today))

\* ------------------------------------------------- EnhancedDateExtractor
\* the results dict
NoResults == [symbols |-> <<>>, option_expiry |-> <<>>, future_expiry |-> <<>>]

DefaultSymbols ==
    <<Str("NIFTY"), Str("BANKNIFTY"), Str("FINNIFTY"), Str("MIDCPNIFTY"), Str("SENSEX")>>

\* [f(x) for x in q if x]
RECURSIVE FormatTruthy(_)
FormatTruthy(q) ==
    IF q = <<>> THEN <<>>
    ELSE (IF Truthy(Head(q)) THEN <<FormatDateString(Head(q))>> ELSE <<>>)
            \o FormatTruthy(Tail(q))

OnlyTruthy(q) == SelectSeq(q, Truthy)

\* datetime(1900, 1, 1)
SortEpoch == ToOrdinal(1900, 1, 1)

\* (variant: the sort key is the day of the month)
ParseDateForSortByDay(v) ==
    LET formatted == FormatDateString(v) IN
    IF Truthy(formatted) /\ Strptime(formatted, "%d-%m-%Y").y # 0
    THEN formatted.a
    ELSE SortEpoch

\* date_extractor.py 352-360
ParseDateForSort(v) ==
    LET formatted == FormatDateString(v) IN
    IF Truthy(formatted) /\ Strptime(formatted, "%d-%m-%Y").y # 0
    THEN LET date == Strptime(formatted, "%d-%m-%Y") IN ToOrdinal(date.y, date.m, date.d)
    ELSE SortEpoch

\* date_extractor.py 330-345: the values of the scanned cells whose str() looks
\* like a date (the cap of 20 is not reached by the sheets followed here)
DatesFound(cells) == {v \in cells : Truthy(v) /\ LooksLikeDate(StrOf(v))}

\* date_extractor.py 347: sorted(list(set), key): every order of the set that is
\* sorted by the key (the set's iteration order decides between equal keys)
ScanForDates(cells) ==
    LET found == DatesFound(cells)
        n == Cardinality(found)
    IN {q \in [1..n -> found] :
          /\ \A i, j \in 1..n : i # j => q[i] # q[j]
          /\ \A i, j \in 1..n : i < j => ParseDateForSort(q[i]) <= ParseDateForSort(q[j])}

\* list(dict.fromkeys(q))
\* (variant: the last occurrence of a value is the one kept)
RECURSIVE DedupeKeepLast(_)
DedupeKeepLast(q) ==
    IF q = <<>> THEN <<>>
    ELSE IF \E i \in 2..Len(q) : q[i] = Head(q)
         THEN DedupeKeepLast(Tail(q))
         ELSE <<Head(q)>> \o DedupeKeepLast(Tail(q))

RECURSIVE Dedupe(_)
Dedupe(q) ==
    IF q = <<>> THEN <<>>
    ELSE LET front == Dedupe(SubSeq(q, 1, Len(q) - 1))
             last == q[Len(q)]
         IN IF \E i \in 1..(Len(q) - 1) : q[i] = last THEN front ELSE Append(front, last)

\* date_extractor.py 391: v and str(v).strip() and str(v) != "None"
Usable(v) == Truthy(v) /\ Truthy(Strip(StrOf(v))) /\ StrOf(v) # Str("None")

\* (variant: an empty symbols list is left empty)
ValidateAndCleanNoSymbols(results, today) ==
    LET symbols == SelectSeq(Dedupe(results.symbols), Usable)
        option == SelectSeq(Dedupe(results.option_expiry), Usable)
        future == SelectSeq(Dedupe(results.future_expiry), Usable)
        option_expiry == IF option = <<>> THEN GenerateFallbackDates(today) ELSE option
    IN [symbols |-> symbols,
        option_expiry |-> option_expiry,
        future_expiry |-> IF future = <<>> THEN option_expiry ELSE future]

\* date_extractor.py 382-406
ValidateAndClean(results, today) ==
    LET symbols == SelectSeq(Dedupe(results.symbols), Usable)
        option == SelectSeq(Dedupe(results.option_expiry), Usable)
        future == SelectSeq(Dedupe(results.future_expiry), Usable)
        option_expiry == IF option = <<>> THEN GenerateFallbackDates(today) ELSE option
    IN [symbols |-> IF symbols = <<>> THEN DefaultSymbols ELSE symbols,
        option_expiry |-> option_expiry,
        future_expiry |-> IF future = <<>> THEN option_expiry ELSE future]

\* date_extractor.py 465-472
GetFallbackDates(today) ==
    [symbols |-> DefaultSymbols,
     option_expiry |-> GenerateFallbackDates(today),
     future_expiry |-> GenerateFallbackDates(today)]

\* date_extractor.py 108-128: Method 1, the lists _extract_from_validation returned
AfterValidation(book) ==
    [symbols |-> book.valid.symbols,
     option_expiry |-> OnlyTruthy(FormatTruthy(book.valid.option_expiry)),
     future_expiry |-> OnlyTruthy(FormatTruthy(book.valid.future_expiry))]

\* date_extractor.py 130-141: Method 2, the named ranges
AfterNamedRanges(r, book) ==
    [symbols |-> IF r.symbols # <<>> THEN r.symbols ELSE book.named.symbols,
     option_expiry |-> IF r.option_expiry # <<>> THEN r.option_expiry
                       ELSE FormatTruthy(book.named.option_expiry),
     future_expiry |-> IF r.future_expiry # <<>> THEN r.future_expiry
                       ELSE FormatTruthy(book.named.future_expiry)]

\* date_extractor.py 143-151: Method 3, the scan, and the copy to future_expiry
AfterScan(r, scanned) ==
    LET option == IF r.option_expiry # <<>> THEN r.option_expiry
                  ELSE FormatTruthy(scanned)
    IN [symbols |-> r.symbols,
        option_expiry |-> option,
        future_expiry |-> IF r.future_expiry = <<>> /\ option # <<>>
                          THEN option ELSE r.future_expiry]

\* date_extractor.py 153-169: Method 4, the current values of B3 and B4
CurrentValue(v, otherwise) ==
    IF Truthy(v) /\ Truthy(FormatDateString(v)) /\ LooksLikeDate(FormatDateString(v))
    THEN <<FormatDateString(v)>>
    ELSE otherwise

AfterCurrentValues(r, book) ==
    IF r.option_expiry # <<>> THEN r
    ELSE [symbols |-> r.symbols,
          option_expiry |-> CurrentValue(book.B3, r.option_expiry),
          future_expiry |-> CurrentValue(book.B4, r.future_expiry)]

\* the results after each of the four methods
Stages(book, scanned) ==
    LET s1 == AfterValidation(book)
        s2 == AfterNamedRanges(s1, book)
        s3 == AfterScan(s2, scanned)
        s4 == AfterCurrentValues(s3, book)
    IN <<s1, s2, s3, s4>>

\* date_extractor.py 78-180 without the handler of 182-186: what the body returns,
\* or that it raised
Attempt(book, today, scanned) ==
    LET stages == Stages(book, scanned)
        raised == \/ book.reach = "no_sheet"
                  \/ book.reach = "ok" /\ stages[3].option_expiry = <<>> /\ book.rangeRaises
    IN IF book.reach \in {"no_win32", "no_excel", "no_workbook"}
       THEN [raised |-> FALSE, path |-> "fallback", stages |-> <<>>,
             results |-> GetFallbackDates(today)]
       ELSE IF raised
       THEN [raised |-> TRUE, path |-> "raised", stages |-> <<>>, results |-> NoResults]
       ELSE [raised |-> FALSE, path |-> "extracted", stages |-> stages,
             results |-> ValidateAndClean(stages[4], today)]

\* (variant: without the except clause)
ExtractAllDatesUnguarded(book, today, scanned) == Attempt(book, today, scanned)

\* date_extractor.py 76-193
ExtractAllDates(book, today, scanned) ==
    LET attempt == Attempt(book, today, scanned) IN
    IF attempt.raised
    THEN [raised |-> FALSE, path |-> "fallback", stages |-> <<>>,
          results |-> GetFallbackDates(today)]
    ELSE attempt

\* --- the workbooks the resolver is followed on
SymbolLists == {<<>>, <<Str("NIFTY"), Str("BANKNIFTY"), Str("NIFTY")>>, <<Str("  ")>>}
OptionLists ==
    {<<>>, <<Str("  ")>>,
     <<Native(2025, 10, 30), DateText("/", 7, 10, 2025, FALSE),
       DateText("-", 7, 10, 2025, FALSE)>>}
FutureLists ==
    {<<>>, <<DateText("-", 30, 10, 2025, FALSE), DateText("-", 27, 11, 2025, FALSE)>>}
NamedSymbolLists == {<<>>, <<Str("SENSEX")>>}
NamedOptionLists == {<<>>, <<Serial(45960), Str("None")>>}
NamedFutureLists == {<<>>, <<Native(2025, 11, 27)>>}
\* date-shaped texts elsewhere on the sheet: two dates, 31 February, a day of 1899
ScanValues ==
    {DateText("-", 30, 10, 2025, FALSE), DateText("/", 7, 10, 2025, FALSE),
     DateText("-", 31, 2, 2025, FALSE), DateText("-", 15, 6, 1899, FALSE)}
B3Values == {NoneVal, Native(2025, 10, 7)}
B4Values == {NoneVal, Native(2025, 10, 30), Str("Select")}

Unreached(reach) ==
    [reach |-> reach, rangeRaises |-> FALSE, valid |-> NoResults, named |-> NoResults,
     cells |-> {}, B3 |-> NoneVal, B4 |-> NoneVal]

Books ==
    {Unreached(reach) : reach \in {"no_win32", "no_excel", "no_workbook", "no_sheet"}}
    \cup
    {[reach |-> "ok", rangeRaises |-> x,
      valid |-> [symbols |-> vs, option_expiry |-> vo, future_expiry |-> vf],
      named |-> [symbols |-> ns, option_expiry |-> no, future_expiry |-> nf],
      cells |-> cells, B3 |-> b3, B4 |-> b4] :
        x \in BOOLEAN, vs \in SymbolLists, vo \in OptionLists, vf \in FutureLists,
        ns \in NamedSymbolLists, no \in NamedOptionLists, nf \in NamedFutureLists,
        cells \in SUBSET ScanValues, b3 \in B3Values, b4 \in B4Values}

\* the day the resolver runs on
ResolverDay == ToOrdinal(2025, 10, 6)

ResolverCalls == {Called("extract_all_dates", [book |-> b, today |-> ResolverDay]) : b \in Books}

\* the scan reads every cell of the region, B3 and B4 among them
ExtractDates ==
    /\ call.fn = "extract_all_dates" /\ call.pc = "called"
    /\ \E scanned \in ScanForDates(call.arg.book.cells
                                     \cup {call.arg.book.B3, call.arg.book.B4}) :
          Return(ExtractAllDates(call.arg.book, call.arg.today, scanned))

\* ----------------------------------------------- login_and_extract_token
\* kite_autologin.py 100-122: the strategies called, in the order of the calls
StrategiesInvoked(b) ==
    IF HasToken(ExtractFromCookies(b)) THEN <<"cookies">>
    ELSE IF HasToken(ExtractFromLocalStorage(b)) THEN <<"cookies", "localstorage">>
    ELSE <<"cookies", "localstorage", "network_logs">>

\* browser sessions whose three sources hold different tokens
SourceTokens == [cookie |-> 1, local |-> 2, net |-> 3]
DistinctBrowsers ==
    [cookie : {0, SourceTokens.cookie}, local : {0, SourceTokens.local},
     netHit : BOOLEAN, net : {0, SourceTokens.net}, uid : {"U1", ""}]

TokenCalls == {Called("extract_token", [browser |-> b]) : b \in DistinctBrowsers}

LoginAndExtractToken ==
    /\ call.fn = "extract_token" /\ call.pc = "called"
    /\ Return([cred |-> ExtractToken(call.arg.browser),
               invoked |-> StrategiesInvoked(call.arg.browser)])

\* ------------------------------------------------- perform_daily_login, whole
\* (variant: a timed-out wait is logged and the strategies run all the same)
LoginFlowIgnoresTimeout(page, b) ==
    IF page \in {"dashboard", "timeout"}
    THEN [cred |-> ExtractToken(b), invoked |-> StrategiesInvoked(b), waits |-> 1]
    ELSE [cred |-> Empty, invoked |-> <<>>,
          waits |-> IF page \in {"timeout", "wait_raises"} THEN 1 ELSE 0]

\* login_and_extract_token: the credential returned, the strategies called and
\* the number of WebDriverWait(...).until calls made
LoginFlow(page, b) ==
    IF page = "dashboard"
    THEN [cred |-> ExtractToken(b), invoked |-> StrategiesInvoked(b), waits |-> 1]
    ELSE [cred |-> Empty, invoked |-> <<>>,
          waits |-> IF page \in {"timeout", "wait_raises"} THEN 1 ELSE 0]

\* perform_daily_login: one call of login_and_extract_token, then the write
PerformDailyLogin(page, b, w) ==
    LET flow == LoginFlow(page, b) IN
    [cred |-> flow.cred, invoked |-> flow.invoked, waits |-> flow.waits,
     flows |-> 1,
     wrote |-> HasToken(flow.cred) /\ w \notin {"unavailable", "fail_first"},
     success |-> HasToken(flow.cred) /\ WriteTokenReturns(w)]

\* page: how far login_and_extract_token gets before the strategies (69-98):
\* selenium is missing, setup_driver fails, driver.get raises, the 120 s wait
\* times out, the wait raises something else, or the dashboard URL is seen
LoginCalls ==
    {Called("perform_daily_login", [page |-> page, browser |-> b, write |-> w]) :
        page \in {"no_selenium", "no_driver", "get_raises", "timeout", "wait_raises",
                  "dashboard"},
        b \in DistinctBrowsers, w \in WriteOutcomes}

DailyLogin ==
    /\ call.fn = "perform_daily_login" /\ call.pc = "called"
    /\ Return(PerformDailyLogin(call.arg.page, call.arg.browser, call.arg.write))

\* ------------------------------------------- _format_date_string on a text
\* A text is the sequence of its characters.
DigitChars == <<"0", "1", "2", "3", "4", "5", "6", "7", "8", "9">>
IsDigit(c) == \E i \in 1..Len(DigitChars) : DigitChars[i] = c
DigitValue(c) == (CHOOSE i \in 1..Len(DigitChars) : DigitChars[i] = c) - 1

\* str.isdigit()
AllDigits(t) == t # <<>> /\ \A i \in 1..Len(t) : IsDigit(t[i])

\* int(t)
RECURSIVE Number(_)
Number(t) ==
    IF t = <<>> THEN 0
    ELSE 10 * Number(SubSeq(t, 1, Len(t) - 1)) + DigitValue(t[Len(t)])

\* str.strip()
RECURSIVE LStrip(_)
LStrip(t) == IF t # <<>> /\ Head(t) = " " THEN LStrip(Tail(t)) ELSE t

RECURSIVE RStrip(_)
RStrip(t) ==
    IF t # <<>> /\ t[Len(t)] = " " THEN RStrip(SubSeq(t, 1, Len(t) - 1)) ELSE t

TextStrip(t) == RStrip(LStrip(t))

\* t.split(ch)[0]
RECURSIVE Before(_, _)
Before(t, ch) ==
    IF t = <<>> \/ Head(t) = ch THEN <<>> ELSE <<Head(t)>> \o Before(Tail(t), ch)

\* t.split(ch)
RECURSIVE SplitOn(_, _)
SplitOn(t, ch) ==
    LET first == Before(t, ch) IN
    IF Len(first) = Len(t) THEN <<t>>
    ELSE <<first>> \o SplitOn(SubSeq(t, Len(first) + 2, Len(t)), ch)

\* t.replace(x, y)
Replace(t, x, y) == [i \in 1..Len(t) |-> IF t[i] = x THEN y ELSE t[i]]

\* date_extractor.py 362-380 on a text
TextLooksLikeDate(t) ==
    /\ Len(t) >= 5
    /\ \E i \in 1..Len(t) : t[i] \in {"-", "/"}
    /\ \E i \in 1..Len(t) : IsDigit(t[i])
    /\ LET parts == SplitOn(Replace(t, "/", "-"), "-") IN
       /\ Len(parts) = 3
       /\ AllDigits(parts[1]) /\ AllDigits(parts[2]) /\ AllDigits(parts[3])
       /\ Number(parts[1]) >= 1 /\ Number(parts[1]) <= 31
       /\ Number(parts[2]) >= 1 /\ Number(parts[2]) <= 12

\* the fields of strptime: %d is one or two digits (1..31) or a space and a
\* digit, %m one or two digits (1..12), %Y four digits, %H %M %S one or two
DayField(p) ==
    \/ AllDigits(p) /\ Len(p) <= 2 /\ Number(p) >= 1 /\ Number(p) <= 31
    \/ Len(p) = 2 /\ p[1] = " " /\ IsDigit(p[2]) /\ p[2] # "0"
DayValue(p) == IF p[1] = " " THEN DigitValue(p[2]) ELSE Number(p)
TimeFields(t) ==
    LET parts == SplitOn(t, ":")
        ClockField(p, most) == AllDigits(p) /\ Len(p) <= 2 /\ Number(p) <= most
    IN /\ Len(parts) = 3
       /\ ClockField(parts[1], 23) /\ ClockField(parts[2], 59) /\ ClockField(parts[3], 61)

\* the date three fields name if datetime(y, m, d) exists, or NoDate
FieldsDate(year, month, day) ==
    IF /\ AllDigits(year) /\ Len(year) = 4 /\ Number(year) >= 1
       /\ AllDigits(month) /\ Len(month) <= 2 /\ Number(month) \in 1..12
       /\ DayField(day)
       /\ DayValue(day) <= DaysInMonth(Number(year), Number(month))
    THEN Ymd(Number(year), Number(month), DayValue(day))
    ELSE NoDate

\* datetime.strptime(t, fmt) on a text: the date, or y = 0 for ValueError
TextStrptime(t, fmt) ==
    LET \* where the day field of "<day> <time>" ends
        DayEnd(x) ==
            IF x # <<>> /\ Head(x) = " " THEN 2
            ELSE IF Len(x) >= 2 /\ IsDigit(x[1]) /\ IsDigit(x[2]) THEN 2
            ELSE 1
    IN
    CASE fmt = "%Y-%m-%d %H:%M:%S" ->
             LET parts == SplitOn(t, "-") IN
             IF Len(parts) # 3 \/ Len(parts[3]) < DayEnd(parts[3]) + 2 THEN NoDate
             ELSE LET tail == parts[3]
                      day == SubSeq(tail, 1, DayEnd(tail))
                      rest == SubSeq(tail, DayEnd(tail) + 1, Len(tail))
                  IN IF Head(rest) = " " /\ TimeFields(LStrip(rest))
                     THEN FieldsDate(parts[1], parts[2], day)
                     ELSE NoDate
      [] fmt = "%Y-%m-%d" ->
             LET parts == SplitOn(t, "-") IN
             IF Len(parts) = 3 THEN FieldsDate(parts[1], parts[2], parts[3]) ELSE NoDate
      [] fmt = "%d-%m-%Y" ->
             LET parts == SplitOn(t, "-") IN
             IF Len(parts) = 3 THEN FieldsDate(parts[3], parts[2], parts[1]) ELSE NoDate
      [] OTHER ->
             LET parts == SplitOn(t, "/") IN
             IF Len(parts) = 3 THEN FieldsDate(parts[3], parts[2], parts[1]) ELSE NoDate

TextMatches(t) == {k \in 1..Len(Formats) : TextStrptime(t, Formats[k]).y # 0}

\* dt.strftime('%d-%m-%Y') as a text
TextStrftime(date) ==
    LET TwoDigits(n) == <<DigitChars[(n \div 10) + 1], DigitChars[(n % 10) + 1]>>
    IN TwoDigits(date.d) \o <<"-">> \o TwoDigits(date.m) \o <<"-">>
          \o TwoDigits(date.y \div 100) \o TwoDigits(date.y % 100)

\* date_extractor.py 37-55: the branch of a str value
FormatDateText(t) ==
    LET date_str == TextStrip(Before(Before(TextStrip(t), "+"), "."))
        hits == TextMatches(date_str)
    IN IF hits # {}
       THEN TextStrftime(TextStrptime(date_str,
                Formats[CHOOSE k \in hits : \A j \in hits : k <= j]))
       ELSE IF TextLooksLikeDate(date_str) THEN Replace(date_str, "/", "-")
       ELSE date_str

\* the texts normalisation is followed on: every text of up to MaxText characters
\* over letters, blanks, the two cut characters, a separator and a digit, and
\* longer texts of the sheet (labels, dates in and out of the known formats)
MaxText == 3
Texts ==
    UNION {[1..n -> {"a", " ", ".", "+", "-", "7"}] : n \in 0..MaxText}
    \cup
    {<<"N", ".", "A", ".">>,
     <<" ", "N", "I", "F", "T", "Y">>,
     <<"A", "+", "B">>,
     <<"S", "e", "l", "e", "c", "t">>,
     <<"0", "7", "/", "1", "0", "/", "2", "5">>,
     <<"7", "-", "7", "-", "7">>,
     <<"3", "1", "-", "0", "2", "-", "2", "0", "2", "5">>,
     <<"0", "7", "/", "1", "0", "/", "2", "0", "2", "5">>,
     <<"7", "-", "1", "0", "-", "2", "0", "2", "5">>,
     <<"2", "0", "2", "5", "-", "1", "0", "-", "0", "7">>,
     <<"2", "0", "2", "5", "-", "1", "0", "-", "0", "7", " ", "0", "0", ":", "0", "0", ":", "0", "0">>,
     <<"0", "7", "-", "1", "0", "-", "2", "0", "2", "5", "+", "0", "5", ":", "3", "0">>,
     <<"2", "0", "2", "5", "-", "1", "0", "-", "0", "7", ".", "5">>,
     <<"2", "0", "2", "5", "-", "1", "0", "-", " ", "7">>,
     <<"0", "7", "-", "1", "0", "-", "2", "0", "2", "5", "5">>,
     <<"1", "-", "1", "3", "-", "2", "0", "2", "5">>,
     <<"2", "9", "-", "0", "2", "-", "2", "0", "2", "4">>,
     <<"2", "9", "/", "0", "2", "/", "2", "0", "2", "5">>}

TextCalls == {Called("format_text", [text |-> t]) : t \in Texts}

FormatText ==
    /\ call.fn = "format_text" /\ call.pc = "called"
    /\ Return(FormatDateText(call.arg.text))

InitCalls ==
    /\ ServerIdle
    /\ \/ call \in ChainCalls
       \/ call \in FormatCalls
       \/ call \in FallbackCalls
       \/ call \in ResolverCalls
       \/ call \in TokenCalls
       \/ call \in LoginCalls
       \/ call \in TextCalls

NextCalls ==
    \/ ReadOptionChain
    \/ FormatDate
    \/ GenerateFallback
    \/ ExtractDates
    \/ LoginAndExtractToken
    \/ DailyLogin
    \/ FormatText

SpecCalls == InitCalls /\ [][NextCalls]_vars

\* C11: the chain read examines exactly the chain_length rows from row 13 on and
\* returns, in sheet order, the strikes of those of them whose strike is present
\* and at least 1000: at most chain_length rows, none absent, zero or below 1000
AcceptedStrike(c) == c.kind \in {"num", "numtext"} /\ c.num >= MinStrike

C11_ChainRowsAccepted ==
    (call.fn = "read_chain" /\ call.pc = "returned") =>
        LET n == call.arg.chain_length
            g == call.arg.grid
            rows == call.ret
            examined == StartRow..(StartRow + n - 1)
        IN /\ Len(rows) <= n
           /\ \A k \in 1..Len(rows) : rows[k] # 0 /\ rows[k] >= MinStrike
           /\ \E f \in [1..Len(rows) -> examined] :
                 /\ \A j, k \in 1..Len(rows) : j < k => f[j] < f[k]
                 /\ \A k \in 1..Len(rows) : AcceptedStrike(g[f[k]]) /\ rows[k] = g[f[k]].num
                 /\ \A r \in examined :
                       AcceptedStrike(g[r]) => \E k \in 1..Len(rows) : f[k] = r

\* a blank row 13 is skipped, row 14 is kept, and an acceptable row past the
\* chain length is not read
C11_Witness ==
    /\ call.fn = "read_chain" /\ call.pc = "returned"
    /\ call.arg.chain_length = 2
    /\ call.arg.grid[StartRow] = Blank
    /\ call.arg.grid[StartRow + 1] = NumText(19500)
    /\ call.arg.grid[StartRow + 2] = Num(19400)
    /\ call.ret = <<19500>>

\* the day a DD-MM-YYYY text names
DayOf(v) == ToOrdinal(v.c, v.b, v.a)

\* C16: the native date, the serial counted from 1899-12-30 and the four accepted
\* texts of one calendar day all normalise to the DD-MM-YYYY text of that day
C16_EquivalentDatesNormalizeAlike ==
    (call.fn = "format_date" /\ call.pc = "returned") =>
        LET date == FromOrdinal(call.arg.day) IN
        /\ call.ret = DateText("-", date.d, date.m, date.y, FALSE)
        /\ DayOf(call.ret) = call.arg.day

\* the serial of 29 February 2024 and the DD/MM/YYYY text of 7 October 2025
C16_Witness ==
    /\ call.fn = "format_date" /\ call.pc = "returned"
    /\ \/ /\ call.arg.value = Serial(45351)
          /\ call.ret = DateText("-", 29, 2, 2024, FALSE)
       \/ /\ call.arg.value = DateText("/", 7, 10, 2025, FALSE)
          /\ call.ret = DateText("-", 7, 10, 2025, FALSE)

\* C18: the generated option expiries are 12 Thursdays after the current day,
\* the first the nearest upcoming one, each 7 days after the one before it
C18_TwelveWeeklyThursdays ==
    (call.fn = "fallback_dates" /\ call.pc = "returned") =>
        LET dates == call.ret
            today == call.arg.today
        IN /\ Len(dates) = 12
           /\ \A k \in 1..Len(dates) :
                 /\ IsDate(dates[k].c, dates[k].b, dates[k].a)
                 /\ Weekday(DayOf(dates[k])) = Thursday
                 /\ DayOf(dates[k]) > today
           /\ DayOf(dates[1]) - today <= 7
           /\ \A k \in 1..(Len(dates) - 1) : DayOf(dates[k + 1]) - DayOf(dates[k]) = 7

\* extract_all_dates has returned
Resolved == call.fn = "extract_all_dates" /\ call.pc = "returned"
Kept(earlier, later) == earlier # <<>> => later = earlier

\* C13: the methods run in the order validation rule, named range, scan, current
\* value, and what an earlier method produced for a field is never replaced by a
\* later method's result
C13_EarlierResultKept ==
    (Resolved /\ call.ret.path = "extracted") =>
        \A k \in 1..3 :
            /\ Kept(call.ret.stages[k].symbols, call.ret.stages[k + 1].symbols)
            /\ Kept(call.ret.stages[k].option_expiry, call.ret.stages[k + 1].option_expiry)
            /\ Kept(call.ret.stages[k].future_expiry, call.ret.stages[k + 1].future_expiry)

\* C14: whatever the spreadsheet accesses do, extract_all_dates returns without
\* raising, and each of its three lists is non-empty
C14_ResolverCannotFail ==
    Resolved =>
        /\ ~call.ret.raised
        /\ call.ret.results.symbols # <<>>
        /\ call.ret.results.option_expiry # <<>>
        /\ call.ret.results.future_expiry # <<>>

\* the sheet cannot be opened, or the read of B3 in Method 4 raises
C14_Witness ==
    /\ Resolved
    /\ \/ call.arg.book.reach = "no_sheet"
       \/ call.arg.book.reach = "ok" /\ call.arg.book.rangeRaises /\ call.ret.path = "fallback"
    /\ call.ret.results = GetFallbackDates(call.arg.today)

\* the place a value first has in a sequence
FirstIndex(q, v) == CHOOSE i \in 1..Len(q) : q[i] = v /\ \A j \in 1..(i - 1) : q[j] # v

\* list holds every usable value of extracted once, in the order of first occurrence
FirstOccurrenceOrder(extracted, list) ==
    /\ \A i \in 1..Len(list) : \E j \in 1..Len(extracted) : extracted[j] = list[i]
    /\ \A j \in 1..Len(extracted) :
          Usable(extracted[j]) => \E i \in 1..Len(list) : list[i] = extracted[j]
    /\ \A i, j \in 1..Len(list) :
          i < j => FirstIndex(extracted, list[i]) < FirstIndex(extracted, list[j])

Clean(list) ==
    /\ \A i, j \in 1..Len(list) : i # j => list[i] # list[j]
    /\ \A i \in 1..Len(list) :
          /\ list[i].kind # "none"
          /\ list[i] \notin {Str(""), Str(" "), Str("  "), Str("None")}

\* C15: each returned list holds each distinct value once, in the order of first
\* occurrence in the extracted sequence, and no None, empty, blank or "None" entry
C15_ListsDistinctInFirstOrder ==
    Resolved =>
        /\ Clean(call.ret.results.symbols)
        /\ Clean(call.ret.results.option_expiry)
        /\ Clean(call.ret.results.future_expiry)
        /\ call.ret.path = "extracted" =>
              LET last == call.ret.stages[4] IN
              /\ (SelectSeq(last.symbols, Usable) # <<>>) =>
                    FirstOccurrenceOrder(last.symbols, call.ret.results.symbols)
              /\ (SelectSeq(last.option_expiry, Usable) # <<>>) =>
                    FirstOccurrenceOrder(last.option_expiry, call.ret.results.option_expiry)
              /\ (SelectSeq(last.future_expiry, Usable) # <<>>) =>
                    FirstOccurrenceOrder(last.future_expiry, call.ret.results.future_expiry)

\* NIFTY, BANKNIFTY, NIFTY from the validation list, and an option list whose
\* second and third entries normalise to the same text, with a "None" text dropped
C15_Witness ==
    /\ Resolved
    /\ call.arg.book.valid.symbols = <<Str("NIFTY"), Str("BANKNIFTY"), Str("NIFTY")>>
    /\ call.ret.results.symbols = <<Str("NIFTY"), Str("BANKNIFTY")>>
    /\ \/ call.ret.results.option_expiry =
             <<DateText("-", 30, 10, 2025, FALSE), DateText("-", 7, 10, 2025, FALSE)>>
       \/ /\ call.ret.stages[4].option_expiry =
                <<DateText("-", 30, 10, 2025, FALSE), Str("None")>>
          /\ call.ret.results.option_expiry = <<DateText("-", 30, 10, 2025, FALSE)>>

\* C17: when no method yields a symbol (the sheet is not reached, the extraction
\* aborts, or the methods return nothing usable), symbols is the five defaults
C17_DefaultSymbolsWhenNoneFound ==
    (Resolved /\ (\/ call.arg.book.reach # "ok"
                  \/ call.ret.path = "fallback"
                  \/ /\ call.ret.path = "extracted"
                     /\ SelectSeq(call.ret.stages[2].symbols, Usable) = <<>>))
        => call.ret.results.symbols =
              <<Str("NIFTY"), Str("BANKNIFTY"), Str("FINNIFTY"), Str("MIDCPNIFTY"),
                Str("SENSEX")>>

\* the sheet is read, the validation list holds only a blank entry
C17_Witness ==
    /\ Resolved
    /\ call.ret.path = "extracted"
    /\ call.arg.book.valid.symbols = <<Str("  ")>>
    /\ Len(call.ret.results.symbols) = 5
    /\ call.ret.results.symbols[5] = Str("SENSEX")

\* the scan supplied the option expiries
FromScan ==
    /\ Resolved
    /\ call.ret.path = "extracted"
    /\ call.ret.stages[2].option_expiry = <<>>
    /\ call.ret.stages[3].option_expiry # <<>>

Parses(v) == Strptime(v, "%d-%m-%Y").y # 0
SortedBy(list, unparsed) ==
    \A i, j \in 1..Len(list) :
        i < j => (IF Parses(list[i]) THEN DayOf(list[i]) ELSE unparsed)
                    <= (IF Parses(list[j]) THEN DayOf(list[j]) ELSE unparsed)

\* C19 as claimed: when the scan supplies the option expiries, the returned list
\* is in calendar order, a text that does not parse counting as older than any date
C19_ScanSortedUnparsedOldest ==
    FromScan => SortedBy(call.ret.results.option_expiry, 0)

\* C19 as amended: when the scan supplies the option expiries, the returned list
\* is in calendar order, a text that does not parse counting as 1 January 1900
C19_ScanSortedUnparsedAs1900 ==
    FromScan => SortedBy(call.ret.results.option_expiry, ToOrdinal(1900, 1, 1))

\* a day of 1899, 31 February, and two days of October 2025 were found
C19_Witness ==
    /\ FromScan
    /\ call.ret.results.option_expiry =
          <<DateText("-", 15, 6, 1899, FALSE), DateText("-", 31, 2, 2025, FALSE),
            DateText("-", 7, 10, 2025, FALSE), DateText("-", 30, 10, 2025, FALSE)>>

\* C20: once the login is observed, cookies, localStorage and the network log are
\* asked in that order, each only if none before it gave a token; the credential
\* returned is that of the first source with a non-empty token, no source is asked
\* after it, and nothing is returned only if none of the three gave a token
C20_FirstStrategyWins ==
    (call.fn = "extract_token" /\ call.pc = "returned") =>
        LET b == call.arg.browser
            cred == call.ret.cred
            invoked == call.ret.invoked
            netToken == IF b.netHit THEN b.net ELSE 0
            order == <<"cookies", "localstorage", "network_logs">>
            token == <<b.cookie, b.local, netToken>>
        IN /\ Len(invoked) \in 1..3
           /\ \A k \in 1..Len(invoked) : invoked[k] = order[k]
           /\ \A k \in 1..Len(invoked) : k < Len(invoked) => token[k] = 0
           /\ Len(invoked) < 3 => token[Len(invoked)] # 0
           /\ cred.found <=> token[Len(invoked)] # 0
           /\ cred.found => /\ cred.enctoken = token[Len(invoked)]
                            /\ cred.user_id = (IF b.uid = "" THEN "UNKNOWN" ELSE b.uid)
           /\ ~cred.found => \A k \in 1..3 : token[k] = 0

\* cookies and localStorage both hold a token, and a session where only the
\* network log does
C20_Witness ==
    /\ call.fn = "extract_token" /\ call.pc = "returned"
    /\ \/ /\ call.arg.browser.cookie = 1 /\ call.arg.browser.local = 2
          /\ call.ret.invoked = <<"cookies">>
          /\ call.ret.cred.enctoken = 1
       \/ /\ call.arg.browser.cookie = 0 /\ call.arg.browser.local = 0
          /\ call.ret.invoked = <<"cookies", "localstorage", "network_logs">>
          /\ call.ret.cred.enctoken = 3

\* C21: when the dashboard is not observed within the 120 s wait, the login flow
\* fails: no strategy is called, the credential returned is empty, nothing is
\* written, perform_daily_login returns False, and the wait and the flow were
\* each entered once
C21_TimeoutIsTerminal ==
    (call.fn = "perform_daily_login" /\ call.pc = "returned") =>
        /\ call.ret.flows = 1
        /\ call.ret.waits <= 1
        /\ call.arg.page = "timeout" =>
              /\ call.ret.invoked = <<>>
              /\ call.ret.cred = Empty
              /\ call.ret.waits = 1
              /\ ~call.ret.wrote
              /\ ~call.ret.success

\* the wait timed out on a session whose cookies hold a token
C21_Witness ==
    /\ call.fn = "perform_daily_login" /\ call.pc = "returned"
    /\ call.arg.page = "timeout"
    /\ call.arg.browser.cookie = SourceTokens.cookie
    /\ call.arg.write = "ok"
    /\ call.ret.cred = Empty
    /\ ~call.ret.success

\* the usable values of a list are all in another
AllKept(earlier, returned) ==
    \A i \in 1..Len(earlier) :
        Usable(earlier[i]) => \E j \in 1..Len(returned) : returned[j] = earlier[i]

\* C22: when a spreadsheet access of one method fails, that method counts as having
\* found nothing and the values the validation rules and the named ranges had
\* already produced for symbols and future_expiry are in the returned record
C22_FailureKeepsEarlierResults ==
    (Resolved /\ call.arg.book.reach = "ok" /\ call.arg.book.rangeRaises) =>
        LET earlier == AfterNamedRanges(AfterValidation(call.arg.book), call.arg.book)
        IN /\ AllKept(earlier.symbols, call.ret.results.symbols)
           /\ AllKept(earlier.future_expiry, call.ret.results.future_expiry)

\* _format_date_string has returned for a text
Formatted == call.fn = "format_text" /\ call.pc = "returned"

\* C23: a text that matches none of the four formats and is not date-shaped is
\* returned as it was given
C23_OtherTextUnchanged ==
    (Formatted /\ TextMatches(call.arg.text) = {} /\ ~TextLooksLikeDate(call.arg.text))
        => call.ret = call.arg.text

\* a DD-MM-YYYY text: two digits, two digits and four digits between hyphens
IsDDMMYYYY(t) ==
    /\ Len(t) = 10
    /\ t[3] = "-" /\ t[6] = "-"
    /\ \A i \in {1, 2, 4, 5, 7, 8, 9, 10} : IsDigit(t[i])

\* the same of a value written as day, month, year
WrittenDDMMYYYY(v) ==
    /\ v.kind = "text" /\ v.sep = "-" /\ ~v.time
    /\ v.a \in 1..99 /\ v.b \in 1..99 /\ IsYear(v.c)

\* C24: the normalised output of every native date, every date serial and every
\* text the date-shape check accepts is a DD-MM-YYYY text
C24_AlwaysDDMMYYYY ==
    /\ (call.fn = "format_date" /\ call.pc = "returned"
            /\ call.arg.value.kind \in {"date", "num"}) => WrittenDDMMYYYY(call.ret)
    /\ (Formatted /\ TextLooksLikeDate(call.arg.text)) => IsDDMMYYYY(call.ret)

\* what Method 4 may put into a field: the normalised current value of its cell,
\* alone, and only when that is date-shaped
SoleCurrentValue(list, cell) ==
    /\ list = <<FormatDateString(cell)>>
    /\ LooksLikeDate(FormatDateString(cell))

\* C25: the current-value method changes a field only if the methods before it
\* left that field empty, and then to the single normalised current value of the
\* field's cell, which is date-shaped
C25_CurrentValueLastResort ==
    (Resolved /\ call.ret.path = "extracted") =>
        LET before == call.ret.stages[3]
            after == call.ret.stages[4]
        IN /\ after.symbols = before.symbols
           /\ after.option_expiry # before.option_expiry =>
                 /\ before.option_expiry = <<>>
                 /\ SoleCurrentValue(after.option_expiry, call.arg.book.B3)
           /\ after.future_expiry # before.future_expiry =>
                 /\ before.future_expiry = <<>>
                 /\ SoleCurrentValue(after.future_expiry, call.arg.book.B4)

\* a step of the fetch request r
FetchStep(r) == fetch'[r] # fetch[r]
CredentialCellsKept == sheet'.F587 = sheet.F587 /\ sheet'.F615 = sheet.F615

InProgress(p) == init[p].pc \in {"sleep2", "sleep3"}

\* C27: no call of initialize_system_fast starts while another is in progress, so
\* at most one login flow is under way at any time
C27_OneInitializationAtATime ==
    /\ [][\A p \in Callers :
             Starts(p) => \A q \in Callers \ {p} : ~InProgress(q)]_vars
    /\ [](Cardinality({p \in Callers : InProgress(p)}) <= 1)

\* the step in which the fetch r reads the grid and has its result
ReadsGrid(r) == fetch[r].pc = "sleep15" /\ fetch'[r].pc = "done"

\* C28: a result marked 'excel_live' comes only from a fetch that wrote the
\* credential and the four input cells and ran the macro before reading the grid
C28_LiveMeansWrittenAndTriggered ==
    [][\A r \in Requests :
          (ReadsGrid(r) /\ fetch'[r].resp.data_source = "excel_live")
             => /\ fetch[r].credsWritten
                /\ fetch[r].inputsWritten
                /\ fetch[r].clicked]_vars

\* the steps in which a request reaches the fetch or the dropdown-options handler
FetchArrives(r) == fetch[r].pc = "idle" /\ fetch'[r].pc # "idle"
DropdownArrives == call.fn = "none" /\ call'.fn = "dropdown_options"

\* C29: while initialization_complete holds, token_data and dropdown_options are
\* set; the flag never goes back to false; and a fetch or dropdown-options request
\* made while it is false is answered 400 with the spreadsheet as it was
C29_FlagMeansInitialised ==
    /\ [](initialization_complete =>
             (token_data.key # "None" /\ dropdown_options # "None"))
    /\ [][initialization_complete => initialization_complete']_vars
    /\ [][\A r \in Requests :
             (FetchArrives(r) /\ ~initialization_complete)
                => (fetch'[r].resp = Refused /\ sheet' = sheet)]_vars
    /\ [][(DropdownArrives /\ ~initialization_complete)
             => (call'.ret.status = "400" /\ sheet' = sheet)]_vars

\* both requests were refused while the login of the background initialisation
\* was under way; it has since completed, the responses are not yet delivered
C29_Witness ==
    /\ initialization_complete
    /\ token_data.key # "None" /\ dropdown_options # "None"
    /\ init["startup"].login = "ok"
    /\ fetch["r1"].pc = "done" /\ fetch["r1"].resp = Refused
    /\ call.fn = "dropdown_options" /\ call.ret.status = "400"

\* C30: a fetch request is answered with status "success" only if the fetch read
\* the spreadsheet: an error record or generated fallback data is not a success
C30_SuccessMeansRead ==
    \A r \in Requests :
        (fetch[r].pc = "done" /\ fetch[r].resp.status = "success")
           => fetch[r].resp.data_source \notin {"error", "fallback"}

====
